---- MODULE Spec2Model ----
(***************************************************************************)
(* Model of the crossword converters of the worker:                        *)
(*   convertSMHToIPUZ (src/src/smhApi.js)   grid-string source             *)
(*   convertToIPUZ    (src/unnamed/part_000) labeled-cell source           *)
(* and of handleConvert (src/unnamed/part_000), which fetches, converts   *)
(* and stores the puzzles, with the route /cron/convert that calls it.     *)
(*                                                                         *)
(* Conventions.  Coordinates x, y, row, col are 0-based as in the source;  *)
(* At translates to the 1-based sequences of TLA+.  A JavaScript string    *)
(* that the code indexes or parses is a sequence of one-character          *)
(* strings; an opaque string is a TLA+ string.  A value whose JavaScript   *)
(* type varies from cell to cell is tagged: Num(n) or Str(s).              *)
(***************************************************************************)
EXTENDS Integers, Sequences, FiniteSets

VARIABLES
    pc,         \* position of the running conversion
    smhPuzzle,  \* argument of convertSMHToIPUZ
    cellMap,    \* cellMap of convertSMHToIPUZ: entries in insertion order
    cellNumber, \* cellNumber of convertSMHToIPUZ
    ipuz,       \* the document under construction / returned
    puzzleData, \* argument of convertToIPUZ
    rootData,   \* argument of convertToIPUZ
    puzzle,     \* puzzle of convertToIPUZ
    solution,   \* solution of convertToIPUZ
    ipuzClues,  \* ipuzClues of convertToIPUZ: properties in insertion order
    now,        \* what new Date().toISOString() gives
    previous,   \* the documents earlier calls with the same argument returned
    request,    \* the pathname of the request the worker's fetch handler got
    nytResponse,   \* what the fetch of the NYT puzzle gives
    smhResponse,   \* what the fetch of the SMH crosswords gives
    ipuzData,   \* ipuzData of handleConvert
    smhPuzzles, \* smhPuzzles of handleConvert, each with its filename
    puts,       \* the bucket writes of the SMH documents, one state each
    nytPut,     \* the bucket write of the NYT document
    bucket,     \* the objects written to env.CROSSWORD_BUCKET, in order
    response,   \* how handleConvert ended
    reply       \* the response of the fetch handler

smhVars == <<smhPuzzle, cellMap, cellNumber>>
nytVars == <<puzzleData, rootData, puzzle, solution, ipuzClues>>
callVars == <<now, previous>>
handlerVars == <<request, nytResponse, smhResponse, ipuzData, smhPuzzles, puts, nytPut,
                 bucket, response, reply>>
vars == <<pc, smhPuzzle, cellMap, cellNumber, ipuz, puzzleData, rootData, puzzle, solution,
          ipuzClues, now, previous, request, nytResponse, smhResponse, ipuzData,
          smhPuzzles, puts, nytPut, bucket, response, reply>>

\* ------------------------------------------------------------- bounds
\* Inferred mode: every grid of at most MaxCells cells.
MaxCells == 6
\* Referenced mode: every one-letter grid of at most MaxRefCells cells.
MaxRefCells == 3
\* Referenced mode: at most MaxRefs clue references over both directions.
MaxRefs == 2
\* Labeled-cell source: width and height are at most MaxDim each.
MaxDim == 2
\* Labeled-cell source: at most MaxRecords cell records.
MaxRecords == 4
\* Labeled-cell source: at most MaxClues clues.
MaxClues == 2
\* handleConvert: the SMH fetch gives at most MaxPuzzles crosswords.
MaxPuzzles == 2
\* Repeated calls: at most MaxCalls calls with one argument.
MaxCalls == 2
\* Repeated calls: every grid of at most MaxAgainCells cells.
MaxAgainCells == 3
\* Labeled-cell source: every publicationDate over "1" and "-" of at most
\* MaxDateLen characters, beside the ISO dates.
MaxDateLen == 5

\* ------------------------------------------------------ JavaScript values
Num(n) == <<"number", n>>
Str(s) == <<"string", s>>
Undefined == "undefined"
\* A clue collection of the source: an array, or anything else.
Arr(items) == <<"array", items>>
NotArray == <<"undefined", <<>>>>
IsArray(v) == v[1] = "array"
\* game.clues when the source has no clues object.
NoClues == [defined |-> FALSE, across |-> NotArray, down |-> NotArray]
\* No document has been built yet.
NoDocument == [none |-> TRUE]
\* An optional string that is indexed or parsed: its characters, or undefined.
Some(chars) == <<"string", chars>>
None == <<"undefined", <<>>>>
Truthy(v) == v[1] = "string" /\ v[2] # <<>>
NaN == <<"NaN", 0>>

\* The decimal digits of `${n}` for an integer n >= 0.
Digit(d) == CASE d = 0 -> "0" [] d = 1 -> "1" [] d = 2 -> "2" [] d = 3 -> "3"
              [] d = 4 -> "4" [] d = 5 -> "5" [] d = 6 -> "6" [] d = 7 -> "7"
              [] d = 8 -> "8" [] d = 9 -> "9"

RECURSIVE NumberToString(_)
NumberToString(n) == IF n < 10 THEN <<Digit(n)>>
               ELSE Append(NumberToString(n \div 10), Digit(n % 10))

\* Number(s) for a string s of decimal digits.
DigitValue(c) == CASE c = "0" -> 0 [] c = "1" -> 1 [] c = "2" -> 2 [] c = "3" -> 3
                   [] c = "4" -> 4 [] c = "5" -> 5 [] c = "6" -> 6 [] c = "7" -> 7
                   [] c = "8" -> 8 [] c = "9" -> 9

RECURSIVE DigitsValue(_, _)
DigitsValue(s, acc) ==
    IF s = <<>> THEN acc
    ELSE DigitsValue(Tail(s), 10 * acc + DigitValue(Head(s)))

ToNumber(s) == DigitsValue(s, 0)

\* s.split(sep) for a one-character separator.
RECURSIVE SplitFrom(_, _, _)
SplitFrom(s, sep, cur) ==
    IF s = <<>> THEN <<cur>>
    ELSE IF Head(s) = sep THEN <<cur>> \o SplitFrom(Tail(s), sep, <<>>)
         ELSE SplitFrom(Tail(s), sep, Append(cur, Head(s)))

Split(s, sep) == SplitFrom(s, sep, <<>>)

\* The cellMap key `${x},${y}`.
CoordKey(x, y) == NumberToString(x) \o <<",">> \o NumberToString(y)

\* v || '' for a string or undefined v.
OrEmpty(v) == IF v = Undefined \/ v = "" THEN "" ELSE v

\* ------------------------------------------------------------ the grid
\* The block character of the source grid, and the marker pushed for it.
BlockChar == "."
\* Mutant: the source's character is pushed unchanged.
BlockMarker_SourceChar == "."
BlockMarker == "#"

height(grid) == Len(grid)
\* Mutant: a grid without rows is given the width 1.
width_EmptyAsOne(grid) == IF Len(grid) > 0 THEN Len(grid[1]) ELSE 1

width(grid) == IF height(grid) > 0 THEN Len(grid[1]) ELSE 0

At(grid, x, y) == grid[y + 1][x + 1]

\* Mutant: the right-hand neighbour is not looked at.
isAcrossStart_NoRightCheck(grid, x, y) ==
    x = 0 \/ At(grid, x - 1, y) = BlockChar

isAcrossStart(grid, x, y) ==
    /\ (x = 0 \/ At(grid, x - 1, y) = BlockChar)
    /\ (x < width(grid) - 1 /\ At(grid, x + 1, y) # BlockChar)

\* Mutant: the cell below is not looked at.
isDownStart_NoBelowCheck(grid, x, y) ==
    y = 0 \/ At(grid, x, y - 1) = BlockChar

isDownStart(grid, x, y) ==
    /\ (y = 0 \/ At(grid, x, y - 1) = BlockChar)
    /\ (y < height(grid) - 1 /\ At(grid, x, y + 1) # BlockChar)

\* Mutant: the counter is not advanced.
NextCellNumber_Stuck(n) == n

\* cellNumber++
NextCellNumber(n) == n + 1

\* Mutant: a block cell is numbered as well.
NumberCell_NumbersBlocks(grid, x, y, st) ==
    LET cell == At(grid, x, y) IN
    IF cell = BlockChar \/ isAcrossStart(grid, x, y) \/ isDownStart(grid, x, y)
    THEN [cellNumber |-> NextCellNumber(st.cellNumber),
          cellMap |-> Append(st.cellMap,
                             [key |-> CoordKey(x, y), number |-> st.cellNumber]),
          puzzleRow |-> Append(st.puzzleRow, Num(st.cellNumber)),
          solutionRow |-> Append(st.solutionRow, cell)]
    ELSE [st EXCEPT !.puzzleRow = Append(@, Num(0)),
                    !.solutionRow = Append(@, cell)]

\* Mutant: every letter cell is numbered, whatever its neighbours.
NumberCell_NumbersEveryLetter(grid, x, y, st) ==
    LET cell == At(grid, x, y) IN
    IF cell = BlockChar
    THEN [st EXCEPT !.puzzleRow = Append(@, Str(BlockMarker)),
                    !.solutionRow = Append(@, BlockMarker)]
    ELSE [cellNumber |-> NextCellNumber(st.cellNumber),
          cellMap |-> Append(st.cellMap,
                             [key |-> CoordKey(x, y), number |-> st.cellNumber]),
          puzzleRow |-> Append(st.puzzleRow, Num(st.cellNumber)),
          solutionRow |-> Append(st.solutionRow, cell)]

\* One iteration of the inner loop of the first pass.  st carries
\* cellNumber, cellMap and the two rows being built.
NumberCell(grid, x, y, st) ==
    LET cell == At(grid, x, y) IN
    IF cell = BlockChar
    THEN [st EXCEPT !.puzzleRow = Append(@, Str(BlockMarker)),
                    !.solutionRow = Append(@, BlockMarker)]
    ELSE IF isAcrossStart(grid, x, y) \/ isDownStart(grid, x, y)
         THEN [cellNumber |-> NextCellNumber(st.cellNumber),
               cellMap |-> Append(st.cellMap,
                                  [key |-> CoordKey(x, y),
                                   number |-> st.cellNumber]),
               puzzleRow |-> Append(st.puzzleRow, Num(st.cellNumber)),
               solutionRow |-> Append(st.solutionRow, cell)]
         ELSE [st EXCEPT !.puzzleRow = Append(@, Num(0)),
                         !.solutionRow = Append(@, cell)]

RECURSIVE NumberRow(_, _, _, _)
NumberRow(grid, x, y, st) ==
    IF x < width(grid)
    THEN NumberRow(grid, x + 1, y, NumberCell(grid, x, y, st))
    ELSE st

\* The outer loop of the first pass, from row y on.  acc carries
\* cellNumber, cellMap, ipuz.puzzle and ipuz.solution.
RECURSIVE NumberGrid(_, _, _)
NumberGrid(grid, y, acc) ==
    IF y < height(grid)
    THEN LET st == NumberRow(grid, 0, y,
                             [cellNumber |-> acc.cellNumber,
                              cellMap |-> acc.cellMap,
                              puzzleRow |-> <<>>, solutionRow |-> <<>>])
         IN NumberGrid(grid, y + 1,
                       [cellNumber |-> st.cellNumber,
                        cellMap |-> st.cellMap,
                        puzzle |-> Append(acc.puzzle, st.puzzleRow),
                        solution |-> Append(acc.solution, st.solutionRow)])
    ELSE acc

\* ------------------------------------------------- second pass: clues
\* Mutant: only the first entry of the map is looked at.
FindCell_FirstOnly(entries, position) ==
    IF entries # <<>> /\ Head(entries).number = position
    THEN <<Head(entries)>>
    ELSE <<>>

\* The first [coord, number] of Object.entries(cellMap) with
\* number === position, as a one-element sequence, or <<>>.
RECURSIVE FindCell(_, _)
FindCell(entries, position) ==
    IF entries = <<>> THEN <<>>
    ELSE IF Head(entries).number = position THEN <<Head(entries)>>
         ELSE FindCell(Tail(entries), position)

\* Mutant: a reference that matches no cell is pushed all the same.
ReferencedClue_PushUnmatched(map, clue, list) ==
    Append(list, [number |-> clue.position,
                  clue |-> OrEmpty(clue.question),
                  answer |-> <<>>,
                  row |-> 0,
                  col |-> 0])

\* The body of the forEach callback for one supplied clue.
ReferencedClue(map, clue, list) ==
    LET found == FindCell(map, clue.position) IN
    IF found = <<>> THEN list
    ELSE LET parts == Split(found[1].key, ",")
             col == ToNumber(parts[1])
             row == ToNumber(parts[2])
         IN Append(list, [number |-> found[1].number,
                          clue |-> OrEmpty(clue.question),
                          answer |-> <<>>,
                          row |-> row,
                          col |-> col])

\* smhClues.<direction>.forEach(...), appending to list.
RECURSIVE ReferencedClues(_, _, _)
ReferencedClues(map, refs, list) ==
    IF refs = <<>> THEN list
    ELSE ReferencedClues(map, Tail(refs), ReferencedClue(map, Head(refs), list))

\* cellMap[`${x},${y}`]: the number, or 0 for undefined (both falsy).
RECURSIVE CellMapGet(_, _)
CellMapGet(entries, key) ==
    IF entries = <<>> THEN 0
    ELSE IF Head(entries).key = key THEN Head(entries).number
         ELSE CellMapGet(Tail(entries), key)

\* The while loops of the fallback: the word from (x, y) rightwards / downwards.
RECURSIVE AcrossWord(_, _, _, _)
AcrossWord(grid, wordX, y, word) ==
    IF wordX < width(grid) /\ At(grid, wordX, y) # BlockChar
    THEN AcrossWord(grid, wordX + 1, y, Append(word, At(grid, wordX, y)))
    ELSE word

\* Mutant: each letter is put before the letters collected so far.
RECURSIVE DownWord_Reversed(_, _, _, _)
DownWord_Reversed(grid, x, wordY, word) ==
    IF wordY < height(grid) /\ At(grid, x, wordY) # BlockChar
    THEN DownWord_Reversed(grid, x, wordY + 1, <<At(grid, x, wordY)>> \o word)
    ELSE word

RECURSIVE DownWord(_, _, _, _)
DownWord(grid, x, wordY, word) ==
    IF wordY < height(grid) /\ At(grid, x, wordY) # BlockChar
    THEN DownWord(grid, x, wordY + 1, Append(word, At(grid, x, wordY)))
    ELSE word

\* Mutant: a run of one letter counts as a word.
InferredAcross_AnyLength(grid, map, x, y, list) ==
    IF x = 0 \/ At(grid, x - 1, y) = BlockChar
    THEN LET word == AcrossWord(grid, x, y, <<>>)
             n == CellMapGet(map, CoordKey(x, y))
         IN IF Len(word) > 0 /\ n # 0
            THEN Append(list, [number |-> n, clue |-> "", answer |-> word,
                               row |-> y, col |-> x])
            ELSE list
    ELSE list

InferredAcross(grid, map, x, y, list) ==
    IF x = 0 \/ At(grid, x - 1, y) = BlockChar
    THEN LET word == AcrossWord(grid, x, y, <<>>)
             n == CellMapGet(map, CoordKey(x, y))
         IN IF Len(word) > 1 /\ n # 0
            THEN Append(list, [number |-> n, clue |-> "", answer |-> word,
                               row |-> y, col |-> x])
            ELSE list
    ELSE list

\* Mutant: the cell above is not looked at.
InferredDown_NoAboveCheck(grid, map, x, y, list) ==
    LET word == DownWord(grid, x, y, <<>>)
        n == CellMapGet(map, CoordKey(x, y))
    IN IF Len(word) > 1 /\ n # 0
       THEN Append(list, [number |-> n, clue |-> "", answer |-> word,
                          row |-> y, col |-> x])
       ELSE list

InferredDown(grid, map, x, y, list) ==
    IF y = 0 \/ At(grid, x, y - 1) = BlockChar
    THEN LET word == DownWord(grid, x, y, <<>>)
             n == CellMapGet(map, CoordKey(x, y))
         IN IF Len(word) > 1 /\ n # 0
            THEN Append(list, [number |-> n, clue |-> "", answer |-> word,
                               row |-> y, col |-> x])
            ELSE list
    ELSE list

\* The fallback's two nested loops, from cell k = y * width + x on.
RECURSIVE InferredClues(_, _, _, _)
InferredClues(grid, map, k, clues) ==
    IF k >= width(grid) * height(grid) THEN clues
    ELSE LET x == k % width(grid)
             y == k \div width(grid)
         IN IF At(grid, x, y) = BlockChar
            THEN InferredClues(grid, map, k + 1, clues)
            ELSE InferredClues(grid, map, k + 1,
                     [across |-> InferredAcross(grid, map, x, y, clues.across),
                      down |-> InferredDown(grid, map, x, y, clues.down)])

\* ------------------------------------------------------ sort and format
\* Mutant: the comparator's operands are swapped.
CompareNumber_Swapped(a, b) == b.number - a.number

\* The comparator (a, b) => a.number - b.number.
CompareNumber(a, b) == a.number - b.number

\* Array.prototype.sort is stable: an element goes after every element
\* that does not compare greater than it.
RECURSIVE InsertSorted(_, _)
InsertSorted(sorted, e) ==
    IF sorted = <<>> THEN <<e>>
    ELSE IF CompareNumber(Head(sorted), e) <= 0
         THEN <<Head(sorted)>> \o InsertSorted(Tail(sorted), e)
         ELSE <<e>> \o sorted

RECURSIVE SortFrom(_, _)
SortFrom(list, sorted) ==
    IF list = <<>> THEN sorted
    ELSE SortFrom(Tail(list), InsertSorted(sorted, Head(list)))

SortClues(list) == SortFrom(list, <<>>)

\* c => [`${c.number}`, `${c.clue || ''}`]
FormatClue(c) == <<NumberToString(c.number), OrEmpty(c.clue)>>

FormatClues(list) == [i \in 1..Len(list) |-> FormatClue(list[i])]

\* ------------------------------------------------------- convertToIPUZ
DigitChars == {"0", "1", "2", "3", "4", "5", "6", "7", "8", "9"}

RECURSIVE DigitPrefix(_)
DigitPrefix(s) ==
    IF s = <<>> \/ Head(s) \notin DigitChars THEN <<>>
    ELSE <<Head(s)>> \o DigitPrefix(Tail(s))

\* parseInt(s) for a string s without leading blanks or sign.
parseInt(s) ==
    LET d == DigitPrefix(s) IN IF d = <<>> THEN NaN ELSE Num(ToNumber(d))

\* A cell record of the source; cells[i] past the end, or null, is Absent.
Absent == [isObject |-> FALSE, answer |-> Undefined, label |-> None]
NoPuzzleData == [dimensions |-> [width |-> 0, height |-> 0],
                 cells |-> <<>>, clues |-> <<>>]
NoRootData == [publicationDate |-> <<>>]
NoSmhPuzzle == [game |-> [grid |-> <<>>, clues |-> NoClues], date |-> None]
\* The time of the runs that do not vary it, as toISOString gives it
\* (the seconds and the zone are left out).
DefaultNow == <<"2", "0", "2", "5", "-", "1", "0", "-", "0", "8", "T", "0", "9", ":", "3", "0">>

\* Mutant: the index is taken column-major.
CellIndex_ColumnMajor(row, col, w) == col * w + row

\* cellIndex = row * dimensions.width + col
CellIndex(row, col, w) == row * w + col

\* cells[cellIndex]
CellAt(cells, cellIndex) ==
    IF cellIndex < Len(cells) THEN cells[cellIndex + 1] ELSE Absent

\* !cell || !cell.answer
IsBlackSquare(cell) ==
    ~cell.isObject \/ cell.answer = Undefined \/ cell.answer = ""

\* The body of the inner loop: the two values pushed for (row, col).
ConvertCell(data, row, col) ==
    LET cell == CellAt(data.cells, CellIndex(row, col, data.dimensions.width)) IN
    IF IsBlackSquare(cell)
    THEN [puzzle |-> Str("#"), solution |-> "#"]
    ELSE [puzzle |-> IF Truthy(cell.label) THEN parseInt(cell.label[2]) ELSE Num(0),
          solution |-> cell.answer]

\* The loops over row and col.
PuzzleGrid(data) ==
    [r \in 1..data.dimensions.height |->
        [c \in 1..data.dimensions.width |-> ConvertCell(data, r - 1, c - 1).puzzle]]

SolutionGrid(data) ==
    [r \in 1..data.dimensions.height |->
        [c \in 1..data.dimensions.width |-> ConvertCell(data, r - 1, c - 1).solution]]

\* ipuzClues[direction], as a one-element sequence of its index, or <<>>.
RECURSIVE KeyIndex(_, _, _)
KeyIndex(obj, direction, i) ==
    IF i > Len(obj) THEN 0
    ELSE IF obj[i].direction = direction THEN i
         ELSE KeyIndex(obj, direction, i + 1)

\* Mutant: the pair is put at the front of its list.
AddClue_AtFront(obj, clue) ==
    LET created == IF KeyIndex(obj, clue.direction, 1) = 0
                   THEN Append(obj, [direction |-> clue.direction, list |-> <<>>])
                   ELSE obj
        k == KeyIndex(created, clue.direction, 1)
    IN [created EXCEPT ![k].list = <<(<<clue.label, clue.text[1].plain>>)>> \o @]

\* The body of the forEach callback for a clue with a first text variant.
AddClue(obj, clue) ==
    LET created == IF KeyIndex(obj, clue.direction, 1) = 0
                   THEN Append(obj, [direction |-> clue.direction, list |-> <<>>])
                   ELSE obj
        k == KeyIndex(created, clue.direction, 1)
    IN [created EXCEPT ![k].list = Append(@, <<clue.label, clue.text[1].plain>>)]

\* clues.forEach(...): the object built, and whether clue.text[0].plain
\* threw (clue.text[0] is undefined for an empty text collection).
RECURSIVE AddClues(_, _)
AddClues(obj, clues) ==
    IF clues = <<>> THEN [threw |-> FALSE, obj |-> obj]
    ELSE IF Head(clues).text = <<>> THEN [threw |-> TRUE, obj |-> obj]
         ELSE AddClues(AddClue(obj, Head(clues)), Tail(clues))

\* `${v}` for v undefined.
UndefinedText == <<"u", "n", "d", "e", "f", "i", "n", "e", "d">>

\* `${dateParts[i]}`
DatePart(dateParts, i) ==
    IF i < Len(dateParts) THEN dateParts[i + 1] ELSE UndefinedText

\* new Date().toISOString().split('T')[0]
Today(time) == Split(time, "T")[1]

\* date || new Date().toISOString().split('T')[0]
DateOrToday(date, time) == IF Truthy(date) THEN date[2] ELSE Today(time)

\* Mutant: the day is put before the month.
FormatDate_DayFirst(publicationDate) ==
    LET dateParts == Split(publicationDate, "-") IN
    DatePart(dateParts, 2) \o <<"/">> \o DatePart(dateParts, 1)
        \o <<"/">> \o DatePart(dateParts, 0)

\* dateParts = publicationDate.split('-') and the date template.
FormatDate(publicationDate) ==
    LET dateParts == Split(publicationDate, "-") IN
    DatePart(dateParts, 1) \o <<"/">> \o DatePart(dateParts, 2)
        \o <<"/">> \o DatePart(dateParts, 0)

\* Lines 219-248.
BuildGrids ==
    /\ pc = "nyt:start"
    /\ puzzle' = PuzzleGrid(puzzleData)
    /\ solution' = SolutionGrid(puzzleData)
    /\ pc' = "nyt:grids"
    /\ UNCHANGED <<smhVars, ipuz, puzzleData, rootData, ipuzClues, callVars, handlerVars>>

\* Lines 250-263, every clue having a first text variant.
BuildClues ==
    /\ pc = "nyt:grids"
    /\ LET r == AddClues(<<>>, puzzleData.clues)
       IN /\ ~r.threw
          /\ ipuzClues' = r.obj
    /\ pc' = "nyt:clues"
    /\ UNCHANGED <<smhVars, ipuz, puzzleData, rootData, puzzle, solution, callVars, handlerVars>>

\* Mutant: the clue without a text variant is passed over and the
\* conversion goes on.
BuildCluesThrows_GoesOn ==
    /\ pc = "nyt:grids"
    /\ LET r == AddClues(<<>>, puzzleData.clues)
       IN /\ r.threw
          /\ ipuzClues' = r.obj
    /\ pc' = "nyt:clues"
    /\ UNCHANGED <<smhVars, ipuz, puzzleData, rootData, puzzle, solution, callVars, handlerVars>>

\* Lines 253-255: clue.text[0].plain throws a TypeError, which leaves
\* convertToIPUZ.
BuildCluesThrows ==
    /\ pc = "nyt:grids"
    /\ LET r == AddClues(<<>>, puzzleData.clues)
       IN /\ r.threw
          /\ ipuzClues' = r.obj
    /\ pc' = "nyt:threw"
    /\ UNCHANGED <<smhVars, ipuz, puzzleData, rootData, puzzle, solution, callVars, handlerVars>>

\* Lines 265-287.
ReturnDocument ==
    /\ pc = "nyt:clues"
    /\ ipuz' = [dimensions |-> [width |-> puzzleData.dimensions.width,
                                height |-> puzzleData.dimensions.height],
                puzzle |-> puzzle,
                solution |-> solution,
                clues |-> ipuzClues,
                date |-> FormatDate(rootData.publicationDate)]
    /\ pc' = "nyt:done"
    /\ UNCHANGED <<smhVars, nytVars, callVars, handlerVars>>

\* ---------------------------------------------- convertSMHToIPUZ, by step
Grid == smhPuzzle.game.grid
SmhClues == smhPuzzle.game.clues

\* Mutant: the counter outlives the call; a call goes on from the value
\* the call before it left.
FirstPass_SharedCounter ==
    /\ pc = "smh:start"
    /\ LET r == NumberGrid(Grid, 0, [cellNumber |-> cellNumber, cellMap |-> <<>>,
                                     puzzle |-> <<>>, solution |-> <<>>])
       IN /\ cellNumber' = r.cellNumber
          /\ cellMap' = r.cellMap
          /\ ipuz' = [dimensions |-> [width |-> width(Grid),
                                      height |-> height(Grid)],
                      puzzle |-> r.puzzle,
                      solution |-> r.solution,
                      clues |-> [across |-> <<>>, down |-> <<>>],
                      date |-> DateOrToday(smhPuzzle.date, now)]
    /\ pc' = "smh:numbered"
    /\ UNCHANGED <<smhPuzzle, nytVars, callVars, handlerVars>>

\* Lines 75-133: the document skeleton and the first pass.
FirstPass ==
    /\ pc = "smh:start"
    /\ LET r == NumberGrid(Grid, 0, [cellNumber |-> 1, cellMap |-> <<>>,
                                     puzzle |-> <<>>, solution |-> <<>>])
       IN /\ cellNumber' = r.cellNumber
          /\ cellMap' = r.cellMap
          /\ ipuz' = [dimensions |-> [width |-> width(Grid),
                                      height |-> height(Grid)],
                      puzzle |-> r.puzzle,
                      solution |-> r.solution,
                      clues |-> [across |-> <<>>, down |-> <<>>],
                      date |-> DateOrToday(smhPuzzle.date, now)]
    /\ pc' = "smh:numbered"
    /\ UNCHANGED <<smhPuzzle, nytVars, callVars, handlerVars>>

\* Lines 136-177: the source has a clues object.
ReferencedPass ==
    /\ pc = "smh:numbered"
    /\ SmhClues.defined
    /\ ipuz' = [ipuz EXCEPT
                 !.clues.across =
                     IF IsArray(SmhClues.across)
                     THEN ReferencedClues(cellMap, SmhClues.across[2], @) ELSE @,
                 !.clues.down =
                     IF IsArray(SmhClues.down)
                     THEN ReferencedClues(cellMap, SmhClues.down[2], @) ELSE @]
    /\ pc' = "smh:assembled"
    /\ UNCHANGED <<smhVars, nytVars, callVars, handlerVars>>

\* Lines 178-229: the source has no clues object.
InferredPass ==
    /\ pc = "smh:numbered"
    /\ ~SmhClues.defined
    /\ ipuz' = [ipuz EXCEPT !.clues = InferredClues(Grid, cellMap, 0, @)]
    /\ pc' = "smh:assembled"
    /\ UNCHANGED <<smhVars, nytVars, callVars, handlerVars>>

\* Lines 232-233.
SortPass ==
    /\ pc = "smh:assembled"
    /\ ipuz' = [ipuz EXCEPT !.clues.across = SortClues(@),
                            !.clues.down = SortClues(@)]
    /\ pc' = "smh:sorted"
    /\ UNCHANGED <<smhVars, nytVars, callVars, handlerVars>>

\* Lines 236-239.
FormatPass ==
    /\ pc = "smh:sorted"
    /\ ipuz' = [ipuz EXCEPT !.clues.across = FormatClues(@),
                            !.clues.down = FormatClues(@)]
    /\ pc' = "smh:done"
    /\ UNCHANGED <<smhVars, nytVars, callVars, handlerVars>>

\* ------------------------------------------- the converters as functions
\* convertToIPUZ(puzzleData, rootData): whether it threw, and what it
\* returned if not.
convertToIPUZ(data, root) ==
    LET r == AddClues(<<>>, data.clues) IN
    [threw |-> r.threw,
     document |-> IF r.threw THEN NoDocument
                  ELSE [dimensions |-> [width |-> data.dimensions.width,
                                        height |-> data.dimensions.height],
                        puzzle |-> PuzzleGrid(data),
                        solution |-> SolutionGrid(data),
                        clues |-> r.obj,
                        date |-> FormatDate(root.publicationDate)]]

\* convertSMHToIPUZ(smhPuzzle) at the time time.
convertSMHToIPUZ(source, time) ==
    LET grid == source.game.grid
        smhClues == source.game.clues
        r == NumberGrid(grid, 0, [cellNumber |-> 1, cellMap |-> <<>>,
                                  puzzle |-> <<>>, solution |-> <<>>])
        assembled ==
            IF smhClues.defined
            THEN [across |-> IF IsArray(smhClues.across)
                             THEN ReferencedClues(r.cellMap, smhClues.across[2], <<>>)
                             ELSE <<>>,
                  down |-> IF IsArray(smhClues.down)
                           THEN ReferencedClues(r.cellMap, smhClues.down[2], <<>>)
                           ELSE <<>>]
            ELSE InferredClues(grid, r.cellMap, 0, [across |-> <<>>, down |-> <<>>])
    IN [dimensions |-> [width |-> width(grid), height |-> height(grid)],
        puzzle |-> r.puzzle,
        solution |-> r.solution,
        clues |-> [across |-> FormatClues(SortClues(assembled.across)),
                   down |-> FormatClues(SortClues(assembled.down))],
        date |-> DateOrToday(source.date, time)]

\* The handler is not running.
NoResponse == [kind |-> "none", status |-> 0, success |-> FALSE]
NoReply == [kind |-> "none", status |-> 0, body |-> ""]
NoFetch == [outcome |-> "none"]
HandlerIdle ==
    /\ request = ""
    /\ nytResponse = NoFetch
    /\ smhResponse = NoFetch
    /\ ipuzData = NoDocument
    /\ smhPuzzles = <<>>
    /\ puts = <<>>
    /\ nytPut = "none"
    /\ bucket = <<>>
    /\ response = NoResponse
    /\ reply = NoReply

\* ------------------------------------------------------------- inputs
Letters == {"A", "B"}
CellChars == Letters \cup {BlockChar}

\* The rectangular grids of at most n cells over the characters cs.
GridsUpTo(n, cs) ==
    UNION {[1..h -> [1..w -> cs]] :
             <<w, h>> \in {d \in (0..n) \X (0..n) :
                             d[1] * d[2] <= n /\ (d[2] = 0 => d[1] = 0)}}

\* The grid of the spec's scenario, with the source's block character.
ScenarioGrid == << <<"C", "A", "T">>, <<".", "A", ".">>, <<".", "T", ".">> >>

Positions == {1, 2}
Questions == {Undefined, "p"}
ClueRefs == [position : Positions, question : Questions]

RECURSIVE SeqsUpTo(_, _)
SeqsUpTo(S, n) ==
    IF n = 0 THEN {<<>>}
    ELSE LET shorter == SeqsUpTo(S, n - 1)
         IN shorter \cup {Append(s, e) : s \in {t \in shorter : Len(t) = n - 1},
                                         e \in S}

\* The clue collections of at most n references, and what is no array.
ClueCollections(n) == {Arr(s) : s \in SeqsUpTo(ClueRefs, n)} \cup {NotArray}

\* The clues objects with at most n references over both directions.
ClueInputs(n) ==
    {c \in [defined : {TRUE}, across : ClueCollections(n), down : ClueCollections(n)] :
        Len(c.across[2]) + Len(c.down[2]) <= n}

\* Sources without a clues object: every grid of at most cells cells.
InferredInputs(cells) ==
    {[game |-> [grid |-> g, clues |-> NoClues], date |-> None] :
        g \in GridsUpTo(cells, CellChars) \cup {ScenarioGrid}}

\* Sources with a clues object of at most refs references.
ReferencedInputs(cells, refs) ==
    {[game |-> [grid |-> g, clues |-> c], date |-> None] :
        g \in GridsUpTo(cells, {"A", BlockChar}) \cup {ScenarioGrid},
        c \in ClueInputs(refs)}

InitSMH ==
    /\ pc = "smh:start"
    /\ smhPuzzle \in InferredInputs(MaxCells) \cup ReferencedInputs(MaxRefCells, MaxRefs)
    /\ cellMap = <<>>
    /\ cellNumber = 1
    /\ ipuz = NoDocument
    /\ now = DefaultNow
    /\ previous = <<>>
    /\ HandlerIdle
    /\ puzzleData = NoPuzzleData
    /\ rootData = NoRootData
    /\ puzzle = <<>>
    /\ solution = <<>>
    /\ ipuzClues = <<>>

NextSMH ==
    \/ FirstPass
    \/ ReferencedPass
    \/ InferredPass
    \/ SortPass
    \/ FormatPass

SpecSMH == InitSMH /\ [][NextSMH]_vars

\* ------------------------------------------------ labeled-cell inputs
Labels == {Some(<<"1">>), Some(<<"2">>), Some(<<"1", "0">>)}

CellRecords ==
    { Absent,
      [isObject |-> TRUE, answer |-> Undefined, label |-> Some(<<"1">>)],
      [isObject |-> TRUE, answer |-> "A", label |-> None],
      [isObject |-> TRUE, answer |-> "B", label |-> Some(<<"2">>)],
      [isObject |-> TRUE, answer |-> "A", label |-> Some(<<"1", "0">>)] }

Directions == {"Across", "Down"}
Texts == {<<>>, <<[plain |-> "t"]>>, <<[plain |-> "u"], [plain |-> "t"]>>}
SourceClues == [direction : Directions, label : {l[2] : l \in Labels}, text : Texts]

\* Every sequence of at most records cell records with every dimensions up
\* to dim x dim, without clues; and every sequence of at most clues clues
\* over one fixed 2 x 1 grid.
LabeledInputs(dim, records, clues) ==
    {[dimensions |-> d, cells |-> cs, clues |-> <<>>] :
        d \in [width : 0..dim, height : 0..dim],
        cs \in SeqsUpTo(CellRecords, records)}
    \cup
    {[dimensions |-> [width |-> 2, height |-> 1],
      cells |-> <<[isObject |-> TRUE, answer |-> "A", label |-> Some(<<"1">>)],
                  [isObject |-> TRUE, answer |-> "B", label |-> None]>>,
      clues |-> cl] : cl \in SeqsUpTo(SourceClues, clues)}

\* The fixed 2 x 1 grid of the inputs that vary something else.
SmallPuzzle ==
    [dimensions |-> [width |-> 2, height |-> 1],
     cells |-> <<[isObject |-> TRUE, answer |-> "A", label |-> Some(<<"1">>)],
                 [isObject |-> TRUE, answer |-> "B", label |-> None]>>,
     clues |-> <<>>]

Years == {<<"2", "0", "2", "5">>, <<"1", "9", "9", "9">>}
Months == {<<"1", "0">>, <<"0", "1">>}
Days == {<<"0", "8">>, <<"3", "1">>, <<"1", "0">>}
IsoDates == {y \o <<"-">> \o m \o <<"-">> \o d : y \in Years, m \in Months, d \in Days}

ScenarioDate == <<"2", "0", "2", "5", "-", "1", "0", "-", "0", "8">>

\* The publication dates: the ISO dates, some strings close to one, and
\* every string over "1" and "-" of at most n characters.
PublicationDates(n) ==
    IsoDates
    \cup {<<"2", "0", "2", "5", "-", "1", "0">>,
          <<"2", "0", "2", "5", "/", "1", "0", "/", "0", "8">>,
          <<"2", "0", "2", "5", "1", "0", "0", "8">>,
          ScenarioDate \o <<"-", "0", "9">>}
    \cup SeqsUpTo({"1", "-"}, n)

DefaultRootData == [publicationDate |-> ScenarioDate]

InitNYT ==
    /\ pc = "nyt:start"
    /\ \/ /\ puzzleData \in LabeledInputs(MaxDim, MaxRecords, MaxClues)
          /\ rootData = DefaultRootData
       \/ /\ puzzleData = SmallPuzzle
          /\ rootData \in {[publicationDate |-> d] : d \in PublicationDates(MaxDateLen)}
    /\ puzzle = <<>>
    /\ solution = <<>>
    /\ ipuzClues = <<>>
    /\ ipuz = NoDocument
    /\ smhPuzzle = NoSmhPuzzle
    /\ cellMap = <<>>
    /\ cellNumber = 1
    /\ now = DefaultNow
    /\ previous = <<>>
    /\ HandlerIdle

NextNYT ==
    \/ BuildGrids
    \/ BuildClues
    \/ BuildCluesThrows
    \/ ReturnDocument

SpecNYT == InitNYT /\ [][NextNYT]_vars

\* ------------------------------------------------------ repeated calls
\* The caller has the document and calls convertSMHToIPUZ with the same
\* argument once more.  cellMap and cellNumber are locals of the call that
\* returned; the new call makes its own (lines 98-99).
CallAgainSMH ==
    /\ pc = "smh:done"
    /\ Len(previous) < MaxCalls - 1
    /\ previous' = Append(previous, ipuz)
    /\ ipuz' = NoDocument
    /\ pc' = "smh:start"
    /\ UNCHANGED <<smhVars, nytVars, now, handlerVars>>

\* The same for convertToIPUZ, whose puzzle, solution and ipuzClues are
\* made anew by the call (lines 219-220, 251).
CallAgainNYT ==
    /\ pc = "nyt:done"
    /\ Len(previous) < MaxCalls - 1
    /\ previous' = Append(previous, ipuz)
    /\ ipuz' = NoDocument
    /\ pc' = "nyt:start"
    /\ UNCHANGED <<smhVars, nytVars, now, handlerVars>>

SmhDates == {None, Some(<<"2", "0", "2", "4", "-", "0", "2", "-", "2", "9">>)}
Times == {DefaultNow,
          <<"2", "0", "2", "5", "-", "1", "0", "-", "0", "9", "T", "0", "0", ":", "0", "5">>}

\* The arguments of the repeated calls of convertSMHToIPUZ: every grid of
\* at most cells cells without a clues object and the scenario grid with
\* every clues object of at most refs references, with and without a date.
AgainInputs(cells, refs) ==
    {[p EXCEPT !.date = d] :
        p \in InferredInputs(cells)
               \cup {[game |-> [grid |-> ScenarioGrid, clues |-> c], date |-> None] :
                        c \in ClueInputs(refs)},
        d \in SmhDates}

InitAgain ==
    /\ previous = <<>>
    /\ HandlerIdle
    /\ ipuz = NoDocument
    /\ cellMap = <<>>
    /\ cellNumber = 1
    /\ puzzle = <<>>
    /\ solution = <<>>
    /\ ipuzClues = <<>>
    /\ \/ /\ pc = "smh:start"
          /\ smhPuzzle \in AgainInputs(MaxAgainCells, MaxRefs)
          /\ now \in Times
          /\ puzzleData = NoPuzzleData
          /\ rootData = NoRootData
       \/ /\ pc = "nyt:start"
          /\ smhPuzzle = NoSmhPuzzle
          /\ now = DefaultNow
          /\ \/ /\ puzzleData \in LabeledInputs(MaxDim, MaxClues, MaxClues)
                /\ rootData = DefaultRootData
             \/ /\ puzzleData = SmallPuzzle
                /\ rootData \in {[publicationDate |-> d] : d \in PublicationDates(MaxDateLen)}

NextAgain ==
    \/ NextSMH
    \/ NextNYT
    \/ CallAgainSMH
    \/ CallAgainNYT

SpecAgain == InitAgain /\ [][NextAgain]_vars

\* ------------------------------------------------------- handleConvert
\* s.toLowerCase(), for the letters the inputs use.
LowerChar(c) == CASE c = "H" -> "h" [] c = "A" -> "a" [] c = "R" -> "r"
                  [] c = "D" -> "d" [] OTHER -> c

toLowerCase(chars) == [i \in 1..Len(chars) |-> LowerChar(chars[i])]

\* `smh-${puzzleType}-${date}.ipuz` for the crossword at index.
SmhFilename(crossword, index, time) ==
    LET puzzleType == IF Truthy(crossword.difficulty)
                      THEN toLowerCase(crossword.difficulty[2])
                      ELSE <<"p", "u", "z", "z", "l", "e", "-">>
                               \o NumberToString(index + 1)
        date == DateOrToday(crossword.date, time)
    IN <<"s", "m", "h", "-">> \o puzzleType \o <<"-">> \o date
           \o <<".", "i", "p", "u", "z">>

\* `nyt-mini-${publicationDate}.ipuz`
NytFilename(publicationDate) ==
    <<"n", "y", "t", "-", "m", "i", "n", "i", "-">> \o publicationDate
        \o <<".", "i", "p", "u", "z">>

\* The responses handleConvert returns.
SuccessResponse == [kind |-> "returned", status |-> 200, success |-> TRUE]
ErrorResponse == [kind |-> "returned", status |-> 500, success |-> FALSE]
\* handleConvert ended by throwing.
Thrown == [kind |-> "threw", status |-> 0, success |-> FALSE]

\* Lines 120-132 throw: the fetch rejects, the response is not ok, its
\* body is no JSON or holds no puzzle, or convertToIPUZ throws.
NytThrows ==
    \/ nytResponse.outcome # "ok"
    \/ convertToIPUZ(nytResponse.puzzleData,
                     [publicationDate |-> nytResponse.publicationDate]).threw

\* Lines 135-139 throw: fetchSMHCrosswords throws (smhApi.js 52-66), its
\* result has no puzzles, or convertSMHToIPUZ throws on a crossword
\* without game.
SmhThrows ==
    \/ smhResponse.outcome # "ok"
    \/ \E i \in 1..Len(smhResponse.puzzles) : ~smhResponse.puzzles[i].hasGame

HandleNYT ==
    /\ pc = "hc:start"
    /\ ~NytThrows
    /\ ipuzData' = convertToIPUZ(nytResponse.puzzleData,
                                 [publicationDate |-> nytResponse.publicationDate]).document
    /\ pc' = "hc:converted"
    /\ UNCHANGED <<smhVars, nytVars, callVars, ipuz, request, nytResponse, smhResponse,
                   smhPuzzles, puts, nytPut, bucket, response, reply>>

HandleNYTThrows ==
    /\ pc = "hc:start"
    /\ NytThrows
    /\ pc' = "hc:caught"
    /\ UNCHANGED <<smhVars, nytVars, callVars, ipuz, handlerVars>>

\* Lines 135-160: the crosswords are converted and named and every
\* bucket write is started; Promise.all is awaited next.
HandleSMH ==
    /\ pc = "hc:converted"
    /\ ~SmhThrows
    /\ smhPuzzles' = [i \in 1..Len(smhResponse.puzzles) |->
                        [document |-> convertSMHToIPUZ(smhResponse.puzzles[i], now),
                         filename |-> SmhFilename(smhResponse.puzzles[i], i - 1, now)]]
    /\ puts' = [i \in 1..Len(smhResponse.puzzles) |-> "pending"]
    /\ pc' = "hc:awaitSmh"
    /\ UNCHANGED <<smhVars, nytVars, callVars, ipuz, request, nytResponse, smhResponse,
                   ipuzData, nytPut, bucket, response, reply>>

HandleSMHThrows ==
    /\ pc = "hc:converted"
    /\ SmhThrows
    /\ pc' = "hc:caught"
    /\ UNCHANGED <<smhVars, nytVars, callVars, ipuz, handlerVars>>

\* A started write of an SMH document completes, whatever the handler
\* is doing.
PutCompletes ==
    /\ \E i \in 1..Len(puts) :
         /\ puts[i] = "pending"
         /\ puts' = [puts EXCEPT ![i] = "stored"]
         /\ bucket' = Append(bucket, [key |-> smhPuzzles[i].filename, source |-> "smh"])
    /\ UNCHANGED <<pc, smhVars, nytVars, callVars, ipuz, request, nytResponse, smhResponse,
                   ipuzData, smhPuzzles, nytPut, response, reply>>

\* A started write of an SMH document fails.
PutFails ==
    /\ \E i \in 1..Len(puts) :
         /\ puts[i] = "pending"
         /\ puts' = [puts EXCEPT ![i] = "failed"]
    /\ UNCHANGED <<pc, smhVars, nytVars, callVars, ipuz, request, nytResponse, smhResponse,
                   ipuzData, smhPuzzles, nytPut, bucket, response, reply>>

\* Mutant: the writes are not awaited.
AwaitPuts_NotAwaited ==
    /\ pc = "hc:awaitSmh"
    /\ nytPut' = "pending"
    /\ pc' = "hc:awaitNyt"
    /\ UNCHANGED <<smhVars, nytVars, callVars, ipuz, request, nytResponse, smhResponse,
                   ipuzData, smhPuzzles, puts, bucket, response, reply>>

\* Lines 147-174: Promise.all fulfils when every write has completed; the
\* write of the NYT document is started.
AwaitPuts ==
    /\ pc = "hc:awaitSmh"
    /\ \A i \in 1..Len(puts) : puts[i] = "stored"
    /\ nytPut' = "pending"
    /\ pc' = "hc:awaitNyt"
    /\ UNCHANGED <<smhVars, nytVars, callVars, ipuz, request, nytResponse, smhResponse,
                   ipuzData, smhPuzzles, puts, bucket, response, reply>>

\* Promise.all rejects once a write has failed.
AwaitPutsRejects ==
    /\ pc = "hc:awaitSmh"
    /\ \E i \in 1..Len(puts) : puts[i] = "failed"
    /\ pc' = "hc:caught"
    /\ UNCHANGED <<smhVars, nytVars, callVars, ipuz, handlerVars>>

NytPutCompletes ==
    /\ nytPut = "pending"
    /\ nytPut' = "stored"
    /\ bucket' = Append(bucket, [key |-> NytFilename(nytResponse.publicationDate),
                                 source |-> "nyt-mini"])
    /\ UNCHANGED <<pc, smhVars, nytVars, callVars, ipuz, request, nytResponse, smhResponse,
                   ipuzData, smhPuzzles, puts, response, reply>>

NytPutFails ==
    /\ nytPut = "pending"
    /\ nytPut' = "failed"
    /\ UNCHANGED <<pc, smhVars, nytVars, callVars, ipuz, request, nytResponse, smhResponse,
                   ipuzData, smhPuzzles, puts, bucket, response, reply>>

\* Lines 164-191: the write has completed; the success response.
AwaitNytPut ==
    /\ pc = "hc:awaitNyt"
    /\ nytPut = "stored"
    /\ response' = SuccessResponse
    /\ pc' = "hc:returned"
    /\ UNCHANGED <<smhVars, nytVars, callVars, ipuz, request, nytResponse, smhResponse,
                   ipuzData, smhPuzzles, puts, nytPut, bucket, reply>>

AwaitNytPutRejects ==
    /\ pc = "hc:awaitNyt"
    /\ nytPut = "failed"
    /\ pc' = "hc:caught"
    /\ UNCHANGED <<smhVars, nytVars, callVars, ipuz, handlerVars>>

\* Mutant: the catch block throws the error on.
Catch_Rethrows ==
    /\ pc = "hc:caught"
    /\ response' = Thrown
    /\ pc' = "hc:returned"
    /\ UNCHANGED <<smhVars, nytVars, callVars, ipuz, request, nytResponse, smhResponse,
                   ipuzData, smhPuzzles, puts, nytPut, bucket, reply>>

\* Lines 193-205: the catch block.
Catch ==
    /\ pc = "hc:caught"
    /\ response' = ErrorResponse
    /\ pc' = "hc:returned"
    /\ UNCHANGED <<smhVars, nytVars, callVars, ipuz, request, nytResponse, smhResponse,
                   ipuzData, smhPuzzles, puts, nytPut, bucket, reply>>

\* Lines 22-29: the route /cron/convert, after handleConvert has ended.
RouteCron ==
    /\ pc = "hc:returned"
    /\ request = "/cron/convert"
    /\ reply' = IF response.kind = "threw"
                THEN [kind |-> "returned", status |-> 500,
                      body |-> "Error in scheduled task"]
                ELSE [kind |-> "returned", status |-> 200,
                      body |-> "Successfully processed scheduled task"]
    /\ pc' = "hc:replied"
    /\ UNCHANGED <<smhVars, nytVars, callVars, ipuz, request, nytResponse, smhResponse,
                   ipuzData, smhPuzzles, puts, nytPut, bucket, response>>

\* Lines 42-50: the routes /convert and /api/convert pass the response
\* of handleConvert on.
RouteConvert ==
    /\ pc = "hc:returned"
    /\ request \in {"/convert", "/api/convert"}
    /\ reply' = [kind |-> response.kind, status |-> response.status,
                 body |-> "handleConvert"]
    /\ pc' = "hc:replied"
    /\ UNCHANGED <<smhVars, nytVars, callVars, ipuz, request, nytResponse, smhResponse,
                   ipuzData, smhPuzzles, puts, nytPut, bucket, response>>

\* What the fetch of the NYT puzzle can give.
GoodClue == [direction |-> "Across", label |-> <<"1">>, text |-> <<[plain |-> "t"]>>]
NoTextClue == [direction |-> "Down", label |-> <<"1">>, text |-> <<>>]

NytResponses ==
    {[outcome |-> o, publicationDate |-> ScenarioDate, puzzleData |-> NoPuzzleData] :
        o \in {"rejects", "notOk", "badJson", "noBody"}}
    \cup {[outcome |-> "ok", publicationDate |-> ScenarioDate,
           puzzleData |-> [SmallPuzzle EXCEPT !.clues = cl]] :
             cl \in {<<>>, <<GoodClue>>, <<GoodClue, NoTextClue>>}}

\* The crosswords the SMH fetch can give.
Crosswords ==
    {[hasGame |-> TRUE, game |-> [grid |-> ScenarioGrid, clues |-> NoClues],
      date |-> Some(ScenarioDate), difficulty |-> Some(<<"H", "A", "R", "D">>)],
     [hasGame |-> TRUE, game |-> [grid |-> << <<"A", "B">> >>, clues |-> NoClues],
      date |-> None, difficulty |-> None],
     [hasGame |-> FALSE, game |-> [grid |-> <<>>, clues |-> NoClues],
      date |-> None, difficulty |-> None]}

SmhResponses(n) ==
    {[outcome |-> o, puzzles |-> <<>>] :
        o \in {"rejects", "notOk", "errors", "noPuzzles"}}
    \cup {[outcome |-> "ok", puzzles |-> ps] : ps \in SeqsUpTo(Crosswords, n)}

InitConvert ==
    /\ pc = "hc:start"
    /\ request \in {"/cron/convert", "/convert", "/api/convert"}
    /\ nytResponse \in NytResponses
    /\ smhResponse \in SmhResponses(MaxPuzzles)
    /\ ipuzData = NoDocument
    /\ smhPuzzles = <<>>
    /\ puts = <<>>
    /\ nytPut = "none"
    /\ bucket = <<>>
    /\ response = NoResponse
    /\ reply = NoReply
    /\ now = DefaultNow
    /\ previous = <<>>
    /\ smhPuzzle = NoSmhPuzzle
    /\ cellMap = <<>>
    /\ cellNumber = 1
    /\ ipuz = NoDocument
    /\ puzzleData = NoPuzzleData
    /\ rootData = NoRootData
    /\ puzzle = <<>>
    /\ solution = <<>>
    /\ ipuzClues = <<>>

NextConvert ==
    \/ HandleNYT
    \/ HandleNYTThrows
    \/ HandleSMH
    \/ HandleSMHThrows
    \/ PutCompletes
    \/ PutFails
    \/ AwaitPuts
    \/ AwaitPutsRejects
    \/ NytPutCompletes
    \/ NytPutFails
    \/ AwaitNytPut
    \/ AwaitNytPutRejects
    \/ Catch
    \/ RouteCron
    \/ RouteConvert

SpecConvert == InitConvert /\ [][NextConvert]_vars

\* ------------------------------------------------ vocabulary of the claims
\* Rows r and columns c are 1-based here; the cell (x, y) of the source is
\* row y + 1, column x + 1.
GridCells == UNION {{<<r, c>> : c \in 1..Len(Grid[r])} : r \in 1..Len(Grid)}

\* (r, c) lies in the grid and holds a letter.
SrcLetter(r, c) ==
    /\ r \in 1..Len(Grid)
    /\ c \in 1..Len(Grid[r])
    /\ Grid[r][c] # "."

StartsAcross(r, c) == SrcLetter(r, c) /\ ~SrcLetter(r, c - 1) /\ SrcLetter(r, c + 1)
StartsDown(r, c) == SrcLetter(r, c) /\ ~SrcLetter(r - 1, c) /\ SrcLetter(r + 1, c)
EntryStart(r, c) == StartsAcross(r, c) \/ StartsDown(r, c)

AcrossStarts == {p \in GridCells : StartsAcross(p[1], p[2])}
DownStarts == {p \in GridCells : StartsDown(p[1], p[2])}
EntryStarts == AcrossStarts \cup DownStarts

\* The key "x,y" of the cell in row r, column c.
KeyText(r, c) == NumberToString(c - 1) \o <<",">> \o NumberToString(r - 1)

\* The numbers the numbering map holds for the cell in row r, column c.
MapNumbersAt(r, c) ==
    {cellMap[i].number : i \in {j \in 1..Len(cellMap) : cellMap[j].key = KeyText(r, c)}}

MapNumbers == {cellMap[i].number : i \in 1..Len(cellMap)}

RowMajorBefore(p, q) == p[1] < q[1] \/ (p[1] = q[1] /\ p[2] < q[2])

Returned == pc = "smh:done"
InferredMode == ~SmhClues.defined
ReferencedMode == SmhClues.defined

\* ------------------------------------------------------------------ C1
\* C1: when convertSMHToIPUZ returns, a cell has a non-zero puzzle value and an entry
\* in the numbering map at its key "x,y" if and only if it is a letter cell
\* that starts an across entry or a down entry; every other letter cell
\* has the puzzle value 0 and no entry in the map.
C1_NumberedIffEntryStart ==
    Returned =>
        \A p \in GridCells :
            LET r == p[1]
                c == p[2]
                cell == ipuz.puzzle[r][c]
            IN /\ EntryStart(r, c) =>
                    /\ cell[1] = "number"
                    /\ cell[2] # 0
                    /\ MapNumbersAt(r, c) # {}
               /\ ~EntryStart(r, c) =>
                    /\ MapNumbersAt(r, c) = {}
                    /\ SrcLetter(r, c) => cell = Num(0)
                    /\ ~SrcLetter(r, c) => cell[1] # "number"

\* A grid with an across start right of a block, a down start, and a
\* letter cell that starts nothing, all numbered as claimed.
C1_Witness ==
    /\ Returned
    /\ \E p \in AcrossStarts : p[2] > 1 /\ ipuz.puzzle[p[1]][p[2]][2] # 0
    /\ \E p \in DownStarts : ipuz.puzzle[p[1]][p[2]][2] # 0
    /\ \E p \in GridCells :
         /\ SrcLetter(p[1], p[2])
         /\ ~EntryStart(p[1], p[2])
         /\ ipuz.puzzle[p[1]][p[2]] = Num(0)

\* ------------------------------------------------------------------ C2
\* C2: the numbers assigned are exactly 1..n, n the count of entry-start
\* cells, each used once; they increase strictly in row-major scan order;
\* a cell starting both an across and a down entry has exactly one number.
C2_SequentialNumbering ==
    Returned =>
        LET n == Cardinality(EntryStarts) IN
        /\ Len(cellMap) = n
        /\ MapNumbers = 1..n
        /\ cellNumber = n + 1
        /\ \A p \in EntryStarts :
             /\ Cardinality(MapNumbersAt(p[1], p[2])) = 1
             /\ MapNumbersAt(p[1], p[2]) = {ipuz.puzzle[p[1]][p[2]][2]}
        /\ \A p, q \in EntryStarts :
             RowMajorBefore(p, q) =>
                ipuz.puzzle[p[1]][p[2]][2] < ipuz.puzzle[q[1]][q[2]][2]

\* Three numbered cells, one of which starts both an across and a down entry.
C2_Witness ==
    /\ Returned
    /\ Len(cellMap) >= 3
    /\ AcrossStarts \cap DownStarts # {}

IsScenario == Returned /\ InferredMode /\ Grid = ScenarioGrid

\* C4 as claimed: for the grid C A T / # A # / # T # without clue text the
\* numbering map is {(0,0): 1}, puzzle row 0 is [1, 0, 0], and the across
\* and the down list hold one entry each, numbered 1.
C4_AsClaimed ==
    IsScenario =>
        /\ cellMap = <<[key |-> <<"0", ",", "0">>, number |-> 1]>>
        /\ ipuz.puzzle[1] = <<Num(1), Num(0), Num(0)>>
        /\ Len(ipuz.clues.across) = 1
        /\ ipuz.clues.across[1][1] = <<"1">>
        /\ Len(ipuz.clues.down) = 1
        /\ ipuz.clues.down[1][1] = <<"1">>

\* C4 amended: for that grid the numbering map is {(0,0): 1, (1,0): 2}
\* (the down word A A T starts at column 1 of row 0), puzzle row 0 is
\* [1, 2, 0], the across list holds one entry, numbered 1, and the down
\* list holds one entry, numbered 2; both have empty clue text.
C4_ScenarioNumbering ==
    IsScenario =>
        /\ cellMap = <<[key |-> <<"0", ",", "0">>, number |-> 1],
                       [key |-> <<"1", ",", "0">>, number |-> 2]>>
        /\ ipuz.puzzle[1] = <<Num(1), Num(2), Num(0)>>
        /\ ipuz.puzzle[2] = <<Str("#"), Num(0), Str("#")>>
        /\ ipuz.puzzle[3] = <<Str("#"), Num(0), Str("#")>>
        /\ ipuz.clues.across = << <<(<<"1">>), "">> >>
        /\ ipuz.clues.down = << <<(<<"2">>), "">> >>

C4_Witness == IsScenario /\ Len(ipuz.clues.down) = 1

\* ------------------------------------------------------------------ C5
\* The entry a start cell contributes in inferred mode: its number, as
\* text, with empty clue text.
InferredEntry(p) == <<NumberToString(ipuz.puzzle[p[1]][p[2]][2]), "">>

ExactlyTheEntriesOf(list, starts) ==
    /\ Len(list) = Cardinality(starts)
    /\ \A p \in starts : \E i \in 1..Len(list) : list[i] = InferredEntry(p)
    /\ \A i \in 1..Len(list) : \E p \in starts : list[i] = InferredEntry(p)

\* C5: in inferred mode the across list of the returned document holds
\* exactly one entry per across-start cell, with that cell's number and
\* empty clue text, and nothing else; likewise the down list and the
\* down-start cells.  A run of one letter yields no entry.
C5_InferredEntries ==
    (Returned /\ InferredMode) =>
        /\ ExactlyTheEntriesOf(ipuz.clues.across, AcrossStarts)
        /\ ExactlyTheEntriesOf(ipuz.clues.down, DownStarts)

\* A numbered cell that starts a down entry and whose across run is one
\* letter long: it appears in the down list only.
C5_Witness ==
    /\ Returned
    /\ InferredMode
    /\ \E p \in DownStarts \ AcrossStarts :
         /\ ~SrcLetter(p[1], p[2] - 1)
         /\ \E i \in 1..Len(ipuz.clues.down) : ipuz.clues.down[i] = InferredEntry(p)
    /\ AcrossStarts # {}

\* ------------------------------------------------------------------ C6
RefText(ref) == IF ref.question = Undefined THEN "" ELSE ref.question

Matching(refs) == {i \in 1..Len(refs) : refs[i].position \in MapNumbers}

\* out holds one entry for each matching reference of refs and nothing else.
OneEntryPerMatch(refs, out) ==
    /\ Len(out) = Cardinality(Matching(refs))
    /\ \A ref \in ClueRefs :
         Cardinality({i \in 1..Len(out) :
                        out[i] = <<NumberToString(ref.position), RefText(ref)>>})
           = Cardinality({i \in Matching(refs) :
                            /\ refs[i].position = ref.position
                            /\ RefText(refs[i]) = RefText(ref)})

\* C6: in referenced mode, for each direction whose clue collection is an
\* array, every reference whose position is a number of the numbering map
\* yields exactly one entry (that number, its text), a reference whose
\* position is no such number yields none, and the conversion still returns.
C6_ReferencedEntries ==
    (Returned /\ ReferencedMode) =>
        /\ IsArray(SmhClues.across) =>
             OneEntryPerMatch(SmhClues.across[2], ipuz.clues.across)
        /\ IsArray(SmhClues.down) =>
             OneEntryPerMatch(SmhClues.down[2], ipuz.clues.down)

\* An unmatched across reference followed by a matched one: one entry.
C6_Witness ==
    /\ Returned
    /\ ReferencedMode
    /\ IsArray(SmhClues.across)
    /\ Len(SmhClues.across[2]) = 2
    /\ SmhClues.across[2][1].position \notin MapNumbers
    /\ SmhClues.across[2][2].position \in MapNumbers
    /\ Len(ipuz.clues.across) = 1

\* ------------------------------------------------------------------ C7
\* after holds the entries of before, ascending by number, entries of
\* equal number in the order they have in before.
StableAscending(before, after) ==
    /\ Len(after) = Len(before)
    /\ \A i \in 1..(Len(after) - 1) : after[i].number <= after[i + 1].number
    /\ \A n \in {before[i].number : i \in 1..Len(before)} :
         SelectSeq(after, LAMBDA e : e.number = n)
           = SelectSeq(before, LAMBDA e : e.number = n)

\* after holds, position by position, the number and text of before.
SameOrderFormatted(before, after) ==
    /\ Len(after) = Len(before)
    /\ \A i \in 1..Len(after) :
         /\ ToNumber(after[i][1]) = before[i].number
         /\ after[i][2] = before[i].clue

\* C7: the sort step leaves each list ascending by number with ties in
\* assembled order, and the returned lists keep that order.
C7_StableSort ==
    [][/\ (pc = "smh:assembled" /\ pc' = "smh:sorted") =>
            /\ StableAscending(ipuz.clues.across, ipuz'.clues.across)
            /\ StableAscending(ipuz.clues.down, ipuz'.clues.down)
       /\ (pc = "smh:sorted" /\ pc' = "smh:done") =>
            /\ SameOrderFormatted(ipuz.clues.across, ipuz'.clues.across)
            /\ SameOrderFormatted(ipuz.clues.down, ipuz'.clues.down)]_vars

\* Two across entries of equal number and different text were assembled
\* and are returned in the order of their references.
C7_Witness ==
    /\ Returned
    /\ ReferencedMode
    /\ Len(ipuz.clues.across) = 2
    /\ ipuz.clues.across[1][1] = ipuz.clues.across[2][1]
    /\ ipuz.clues.across[1][2] # ipuz.clues.across[2][2]
    /\ ipuz.clues.across[1][2] = RefText(SmhClues.across[2][1])

\* ------------------------------------- vocabulary of the claims, labeled
NytWidth == puzzleData.dimensions.width
NytHeight == puzzleData.dimensions.height
NytCells == puzzleData.cells
GridsBuilt == pc \in {"nyt:grids", "nyt:clues", "nyt:threw", "nyt:done"}
NytEnded == pc \in {"nyt:threw", "nyt:done"}

\* The 0-based position (row, col) has a record and the record an answer.
HasAnswer(row, col) ==
    LET i == row * NytWidth + col IN
    /\ i + 1 <= Len(NytCells)
    /\ NytCells[i + 1].isObject
    /\ NytCells[i + 1].answer \notin {Undefined, ""}

\* ------------------------------------------------------------------ C8
\* C8 as claimed: each direction's clue list of the document returned by
\* convertToIPUZ is ascending by clue number, whatever the source order.
C8_AsClaimed ==
    pc = "nyt:done" =>
        \A k \in 1..Len(ipuz.clues) :
            LET list == ipuz.clues[k].list IN
            \A i, j \in 1..Len(list) :
                i < j => ToNumber(list[i][1]) <= ToNumber(list[j][1])

\* ------------------------------------------------------------------ C9
\* C9: for every position (row, col) of the dimensions the record at flat
\* index row * width + col decides both grids: without a record, or without
\* an answer, both cells are '#'; otherwise the puzzle cell is the label as
\* an integer, 0 without a label, and the solution cell is the answer.
C9_RecordDecidesCell ==
    GridsBuilt =>
        /\ Len(puzzle) = NytHeight
        /\ Len(solution) = NytHeight
        /\ \A row \in 0..(NytHeight - 1) :
             /\ Len(puzzle[row + 1]) = NytWidth
             /\ Len(solution[row + 1]) = NytWidth
             /\ \A col \in 0..(NytWidth - 1) :
                  LET record == NytCells[row * NytWidth + col + 1] IN
                  IF ~HasAnswer(row, col)
                  THEN /\ puzzle[row + 1][col + 1] = Str("#")
                       /\ solution[row + 1][col + 1] = "#"
                  ELSE /\ puzzle[row + 1][col + 1] =
                            IF record.label = None THEN Num(0)
                            ELSE Num(ToNumber(record.label[2]))
                       /\ solution[row + 1][col + 1] = record.answer
        /\ pc = "nyt:done" => ipuz.puzzle = puzzle /\ ipuz.solution = solution

\* A returned 2 x 2 document from three records: a two-digit label, a cell
\* without label, and the missing fourth record as a block.
C9_Witness ==
    /\ pc = "nyt:done"
    /\ NytWidth = 2
    /\ NytHeight = 2
    /\ Len(NytCells) = 3
    /\ ipuz.puzzle[1][1] = Num(2)
    /\ ipuz.puzzle[1][2] = Num(10)
    /\ ipuz.puzzle[2][1] = Num(0)
    /\ ipuz.puzzle[2][2] = Str("#")
    /\ ipuz.solution[2] = <<"A", "#">>

\* ----------------------------------------------------------------- C10
\* C10 as claimed: convertToIPUZ ends with an error, not with grids,
\* whenever the number of cell records differs from width * height, and
\* with no error on that account when the count matches.
C10_AsClaimed ==
    NytEnded =>
        /\ Len(NytCells) # NytWidth * NytHeight => pc = "nyt:threw"
        /\ (Len(NytCells) = NytWidth * NytHeight /\ pc = "nyt:threw") =>
              \E i \in 1..Len(puzzleData.clues) : puzzleData.clues[i].text = <<>>

\* ----------------------------------------------------------------- C11
\* The source clues of direction d, in source order.
SourceOf(d) == SelectSeq(puzzleData.clues, LAMBDA c : c.direction = d)

\* The list the clues object obj holds for direction d; none is <<>>.
ListOf(obj, d) ==
    LET ks == {k \in 1..Len(obj) : obj[k].direction = d}
    IN IF ks = {} THEN <<>> ELSE obj[CHOOSE k \in ks : TRUE].list

HasList(obj, d) == \E k \in 1..Len(obj) : obj[k].direction = d

\* The pair (label, plain text of the first text variant) of a clue.
Projected(c) == <<c.label, c.text[1].plain>>

\* C11: once convertToIPUZ has built its clues, the list of each
\* direction is the sequence of the source clues of that direction, in
\* source order, each as (label, plain text of the first text variant);
\* no direction has two lists, and the document returns these lists.
C11_ClueListsPartitionSource ==
    pc \in {"nyt:clues", "nyt:done"} =>
        /\ \A d \in Directions :
             /\ Len(ListOf(ipuzClues, d)) = Len(SourceOf(d))
             /\ \A i \in 1..Len(SourceOf(d)) :
                  ListOf(ipuzClues, d)[i] = Projected(SourceOf(d)[i])
             /\ Cardinality({k \in 1..Len(ipuzClues) : ipuzClues[k].direction = d}) <= 1
        /\ \A k \in 1..Len(ipuzClues) : ipuzClues[k].direction \in Directions
        /\ pc = "nyt:done" => ipuz.clues = ipuzClues

\* A returned document for two Down clues of different labels, the first
\* of which has two text variants.
C11_Witness ==
    /\ pc = "nyt:done"
    /\ Len(puzzleData.clues) = 2
    /\ \A i \in 1..2 : puzzleData.clues[i].direction = "Down"
    /\ puzzleData.clues[1].label # puzzleData.clues[2].label
    /\ Len(puzzleData.clues[1].text) = 2
    /\ ListOf(ipuz.clues, "Down")[1] = <<puzzleData.clues[1].label, "u">>
    /\ ListOf(ipuz.clues, "Down")[2][1] = puzzleData.clues[2].label

\* ----------------------------------------------------------------- C12
SomeEmptyText == \E i \in 1..Len(puzzleData.clues) : puzzleData.clues[i].text = <<>>

\* C12: when some source clue has an empty text collection, convertToIPUZ
\* never gets past its clue loop: it ends with the error, no document is
\* returned, and so no entry with blank text is emitted.
C12_EmptyTextFails ==
    SomeEmptyText =>
        /\ pc \notin {"nyt:clues", "nyt:done"}
        /\ ipuz = NoDocument
        /\ pc = "nyt:grids" => ENABLED BuildCluesThrows

\* The conversion ended with the error at the second clue, the first
\* having been taken.
C12_Witness ==
    /\ pc = "nyt:threw"
    /\ Len(puzzleData.clues) = 2
    /\ puzzleData.clues[1].text # <<>>
    /\ puzzleData.clues[2].text = <<>>
    /\ Len(ipuzClues) = 1
    /\ ipuz = NoDocument

\* ----------------------------------------------------------------- C13
\* C13 as claimed: the clues of every document convertToIPUZ returns hold
\* a list for each of the two directions, empty when the source has no
\* clue of that direction.
C13_AsClaimed ==
    pc = "nyt:done" => \A d \in Directions : HasList(ipuz.clues, d)

\* ----------------------------------------------------------------- C14
PublicationDate == rootData.publicationDate

\* s has the form YYYY-MM-DD.
IsIsoDate(s) ==
    /\ Len(s) = 10
    /\ s[5] = "-"
    /\ s[8] = "-"
    /\ \A i \in {1, 2, 3, 4, 6, 7, 9, 10} : s[i] \in DigitChars

\* C14: for a publicationDate YYYY-MM-DD the date of the returned
\* document is MM/DD/YYYY, of the same characters; "2025-10-08" gives
\* "10/08/2025".
C14_IsoDateReformatted ==
    (pc = "nyt:done" /\ IsIsoDate(PublicationDate)) =>
        /\ ipuz.date = SubSeq(PublicationDate, 6, 7) \o <<"/">>
                          \o SubSeq(PublicationDate, 9, 10) \o <<"/">>
                          \o SubSeq(PublicationDate, 1, 4)
        /\ PublicationDate = ScenarioDate =>
             ipuz.date = <<"1", "0", "/", "0", "8", "/", "2", "0", "2", "5">>

\* A returned document for a date whose month and day differ.
C14_Witness ==
    /\ pc = "nyt:done"
    /\ PublicationDate = <<"1", "9", "9", "9", "-", "0", "1", "-", "3", "1">>
    /\ ipuz.date = <<"0", "1", "/", "3", "1", "/", "1", "9", "9", "9">>

\* ----------------------------------------------------------------- C15
\* C15 as claimed: convertToIPUZ returns no document when publicationDate
\* is a string not of the form YYYY-MM-DD.
C15_AsClaimed ==
    ~IsIsoDate(PublicationDate) => pc # "nyt:done"

\* ----------------------------------------------------------------- C16
\* C16 as claimed: with a clues object that holds a clue collection for
\* one direction and none for the other, the direction with a collection
\* is assembled from its references and the other from the grid's letter
\* runs, one entry per start cell of that direction.
C16_AsClaimed ==
    (Returned /\ ReferencedMode) =>
        /\ (IsArray(SmhClues.across) /\ ~IsArray(SmhClues.down)) =>
             /\ OneEntryPerMatch(SmhClues.across[2], ipuz.clues.across)
             /\ ExactlyTheEntriesOf(ipuz.clues.down, DownStarts)
        /\ (IsArray(SmhClues.down) /\ ~IsArray(SmhClues.across)) =>
             /\ OneEntryPerMatch(SmhClues.down[2], ipuz.clues.down)
             /\ ExactlyTheEntriesOf(ipuz.clues.across, AcrossStarts)

\* ----------------------------------------------------------------- C17
AllBlock == \A p \in GridCells : Grid[p[1]][p[2]] = "."

\* C17: for a grid whose every cell is the block character the numbering
\* map is empty, every cell of the puzzle and the solution grid is the
\* block marker, and both clue lists are empty, in either mode.
C17_AllBlockGrid ==
    (Returned /\ AllBlock) =>
        /\ cellMap = <<>>
        /\ cellNumber = 1
        /\ Len(ipuz.puzzle) = Len(Grid)
        /\ Len(ipuz.solution) = Len(Grid)
        /\ \A p \in GridCells :
             /\ ipuz.puzzle[p[1]][p[2]] = Str("#")
             /\ ipuz.solution[p[1]][p[2]] = "#"
        /\ ipuz.clues.across = <<>>
        /\ ipuz.clues.down = <<>>

\* A returned document for an all-block grid of two rows and three
\* columns.
C17_Witness ==
    /\ Returned
    /\ AllBlock
    /\ Len(Grid) = 2
    /\ Len(Grid[1]) = 3
    /\ ipuz.puzzle[2] = <<Str("#"), Str("#"), Str("#")>>
    /\ ipuz.clues.across = <<>>

\* ----------------------------------------------------------------- C18
\* (r, c) holds a letter and has a block or the edge on all four sides.
Isolated(r, c) ==
    /\ SrcLetter(r, c)
    /\ ~SrcLetter(r, c - 1)
    /\ ~SrcLetter(r, c + 1)
    /\ ~SrcLetter(r - 1, c)
    /\ ~SrcLetter(r + 1, c)

IsolatedCells == {p \in GridCells : Isolated(p[1], p[2])}

\* No entry of the assembled list belongs to the cell in row r, column c.
NoEntryAt(list, r, c) ==
    \A i \in 1..Len(list) : ~(list[i].row = r - 1 /\ list[i].col = c - 1)

\* C18: an isolated letter cell has the puzzle value 0 and no entry in
\* the numbering map; no assembled clue entry of either direction belongs
\* to it; every returned entry carries a number of the numbering map, so
\* none refers to it; the lists of a 1 x 1 grid are empty.  This holds in
\* inferred and in referenced mode.
C18_IsolatedCellUnnumbered ==
    /\ pc \in {"smh:assembled", "smh:sorted"} =>
         \A p \in IsolatedCells :
            /\ NoEntryAt(ipuz.clues.across, p[1], p[2])
            /\ NoEntryAt(ipuz.clues.down, p[1], p[2])
    /\ Returned =>
         /\ \A p \in IsolatedCells :
              /\ ipuz.puzzle[p[1]][p[2]] = Num(0)
              /\ MapNumbersAt(p[1], p[2]) = {}
         /\ \A i \in 1..Len(ipuz.clues.across) :
              ToNumber(ipuz.clues.across[i][1]) \in MapNumbers
         /\ \A i \in 1..Len(ipuz.clues.down) :
              ToNumber(ipuz.clues.down[i][1]) \in MapNumbers
         /\ (Len(Grid) = 1 /\ Len(Grid[1]) = 1) =>
              ipuz.clues.across = <<>> /\ ipuz.clues.down = <<>>

\* The 1 x 1 grid of one letter with an across and a down reference to
\* number 1: nothing is numbered and both lists are empty.
C18_Witness ==
    /\ Returned
    /\ ReferencedMode
    /\ Grid = << <<"A">> >>
    /\ IsArray(SmhClues.across)
    /\ IsArray(SmhClues.down)
    /\ Len(SmhClues.across[2]) = 1
    /\ Len(SmhClues.down[2]) = 1
    /\ SmhClues.across[2][1].position = 1
    /\ ipuz.puzzle = << <<Num(0)>> >>
    /\ ipuz.clues.across = <<>>
    /\ ipuz.clues.down = <<>>

\* ----------------------------------------------------------------- C19
\* C19: for the grid without rows the returned document has the
\* dimensions 0 x 0, empty puzzle and solution grids and empty across and
\* down lists, and the conversion can always take its next step.
C19_EmptyGrid ==
    Grid = <<>> =>
        /\ ~Returned => ENABLED NextSMH
        /\ Returned =>
             /\ ipuz.dimensions = [width |-> 0, height |-> 0]
             /\ ipuz.puzzle = <<>>
             /\ ipuz.solution = <<>>
             /\ ipuz.clues.across = <<>>
             /\ ipuz.clues.down = <<>>
             /\ cellMap = <<>>

\* A returned document for the empty grid, without a clues object.
C19_Witness ==
    /\ Returned
    /\ Grid = <<>>
    /\ InferredMode
    /\ ipuz.dimensions.width = 0
    /\ ipuz.puzzle = <<>>

\* ----------------------------------------------------------------- C20
\* The first and the last column of the maximal across run of letters
\* through the letter cell (r, c); the first and the last row of its
\* down run.
RECURSIVE RunLeft(_, _)
RunLeft(r, c) == IF SrcLetter(r, c - 1) THEN RunLeft(r, c - 1) ELSE c

RECURSIVE RunRight(_, _)
RunRight(r, c) == IF SrcLetter(r, c + 1) THEN RunRight(r, c + 1) ELSE c

RECURSIVE RunTop(_, _)
RunTop(r, c) == IF SrcLetter(r - 1, c) THEN RunTop(r - 1, c) ELSE r

RECURSIVE RunBottom(_, _)
RunBottom(r, c) == IF SrcLetter(r + 1, c) THEN RunBottom(r + 1, c) ELSE r

AcrossRunLen(r, c) == RunRight(r, c) - RunLeft(r, c) + 1
DownRunLen(r, c) == RunBottom(r, c) - RunTop(r, c) + 1

\* The letter run of the assembled across (down) entry e holds (r, c).
AcrossCovers(e, r, c) ==
    e.row = r - 1 /\ e.col <= c - 1 /\ c - 1 < e.col + Len(e.answer)

DownCovers(e, r, c) ==
    e.col = c - 1 /\ e.row <= r - 1 /\ r - 1 < e.row + Len(e.answer)

LetterCells == {p \in GridCells : SrcLetter(p[1], p[2])}

\* C20: of the entries assembled from the grid for a direction, exactly
\* one holds a given letter cell in its run when the cell's maximal run in
\* that direction has two letters or more, and that entry starts at the
\* run's first cell and has that cell's number; none holds it when the
\* run has one letter.  In either mode the first cell of a run of two
\* letters or more is a numbered cell.
C20_OneEntryPerRun ==
    /\ (pc \in {"smh:assembled", "smh:sorted"} /\ InferredMode) =>
         \A p \in LetterCells :
            LET r == p[1]
                c == p[2]
                acr == {i \in 1..Len(ipuz.clues.across) :
                          AcrossCovers(ipuz.clues.across[i], r, c)}
                dwn == {i \in 1..Len(ipuz.clues.down) :
                          DownCovers(ipuz.clues.down[i], r, c)}
            IN /\ Cardinality(acr) = IF AcrossRunLen(r, c) >= 2 THEN 1 ELSE 0
               /\ \A i \in acr :
                    /\ ipuz.clues.across[i].col = RunLeft(r, c) - 1
                    /\ Len(ipuz.clues.across[i].answer) = AcrossRunLen(r, c)
                    /\ MapNumbersAt(r, RunLeft(r, c)) = {ipuz.clues.across[i].number}
               /\ Cardinality(dwn) = IF DownRunLen(r, c) >= 2 THEN 1 ELSE 0
               /\ \A i \in dwn :
                    /\ ipuz.clues.down[i].row = RunTop(r, c) - 1
                    /\ Len(ipuz.clues.down[i].answer) = DownRunLen(r, c)
                    /\ MapNumbersAt(RunTop(r, c), c) = {ipuz.clues.down[i].number}
    /\ pc \in {"smh:assembled", "smh:sorted", "smh:done"} =>
         \A p \in LetterCells :
            /\ AcrossRunLen(p[1], p[2]) >= 2 =>
                 Cardinality(MapNumbersAt(p[1], RunLeft(p[1], p[2]))) = 1
            /\ DownRunLen(p[1], p[2]) >= 2 =>
                 Cardinality(MapNumbersAt(RunTop(p[1], p[2]), p[2])) = 1

\* A numbered cell in the middle of a down run of three letters: the one
\* down entry holding it starts one row above it, and the cell starts an
\* across entry of its own; another cell, alone in its row's run, is held
\* by no across entry.
C20_Witness ==
    /\ pc = "smh:assembled"
    /\ InferredMode
    /\ \E p \in LetterCells :
         /\ DownRunLen(p[1], p[2]) = 3
         /\ RunTop(p[1], p[2]) = p[1] - 1
         /\ StartsAcross(p[1], p[2])
         /\ \E i \in 1..Len(ipuz.clues.down) :
              /\ DownCovers(ipuz.clues.down[i], p[1], p[2])
              /\ ipuz.clues.down[i].row = p[1] - 2
    /\ \E p \in LetterCells :
         /\ AcrossRunLen(p[1], p[2]) = 1
         /\ \A i \in 1..Len(ipuz.clues.across) :
              ~AcrossCovers(ipuz.clues.across[i], p[1], p[2])

\* ----------------------------------------------------------------- C21
\* The answer of the assembled across (down) entry e is the letters of
\* the grid from e's cell rightwards (downwards) up to the next block or
\* the edge.
AcrossAnswerIsRun(e) ==
    LET r == e.row + 1
        c == e.col + 1
    IN /\ SrcLetter(r, c)
       /\ Len(e.answer) = RunRight(r, c) - c + 1
       /\ \A k \in 1..Len(e.answer) : e.answer[k] = Grid[r][c + k - 1]
       /\ ~SrcLetter(r, c + Len(e.answer))

DownAnswerIsRun(e) ==
    LET r == e.row + 1
        c == e.col + 1
    IN /\ SrcLetter(r, c)
       /\ Len(e.answer) = RunBottom(r, c) - r + 1
       /\ \A k \in 1..Len(e.answer) : e.answer[k] = Grid[r + k - 1][c]
       /\ ~SrcLetter(r + Len(e.answer), c)

\* C21: in inferred mode the answer of every assembled entry has as many
\* letters as there are consecutive letter cells from the entry's cell to
\* the next block or the edge in the entry's direction, and holds those
\* cells' letters in order.
C21_AnswerIsLetterRun ==
    (pc \in {"smh:assembled", "smh:sorted"} /\ InferredMode) =>
        /\ \A i \in 1..Len(ipuz.clues.across) : AcrossAnswerIsRun(ipuz.clues.across[i])
        /\ \A i \in 1..Len(ipuz.clues.down) : DownAnswerIsRun(ipuz.clues.down[i])

\* A down entry of two different letters that ends at a block above the
\* last row, beside an across entry of two different letters.
C21_Witness ==
    /\ pc = "smh:assembled"
    /\ InferredMode
    /\ \E i \in 1..Len(ipuz.clues.down) :
         LET e == ipuz.clues.down[i] IN
         /\ Len(e.answer) = 2
         /\ e.answer[1] # e.answer[2]
         /\ e.row + 3 <= Len(Grid)
    /\ \E i \in 1..Len(ipuz.clues.across) :
         LET e == ipuz.clues.across[i] IN
         /\ Len(e.answer) = 2
         /\ e.answer[1] # e.answer[2]

\* ----------------------------------------------------------------- C23
\* The across (down) references whose position is the number of a cell
\* that starts only a down (across) entry.
NumberOf(p) == ipuz.puzzle[p[1]][p[2]][2]

CrossReferences(refs, starts) ==
    {i \in 1..Len(refs) : \E p \in starts : refs[i].position = NumberOf(p)}

EmittedIn(list, ref) ==
    \E k \in 1..Len(list) : list[k] = <<NumberToString(ref.position), RefText(ref)>>

\* C23: in referenced mode a reference is matched by its number alone: an
\* across reference whose position is the number of a cell that starts
\* only a down entry is emitted in the across list, and a down reference
\* to a cell that starts only an across entry in the down list.
C23_DirectionNotChecked ==
    (Returned /\ ReferencedMode) =>
        /\ IsArray(SmhClues.across) =>
             \A i \in CrossReferences(SmhClues.across[2], DownStarts \ AcrossStarts) :
                EmittedIn(ipuz.clues.across, SmhClues.across[2][i])
        /\ IsArray(SmhClues.down) =>
             \A i \in CrossReferences(SmhClues.down[2], AcrossStarts \ DownStarts) :
                EmittedIn(ipuz.clues.down, SmhClues.down[2][i])

\* The scenario grid with an across reference to number 2, the cell that
\* starts only the down entry: the across list holds an entry numbered 2.
C23_Witness ==
    /\ Returned
    /\ ReferencedMode
    /\ Grid = ScenarioGrid
    /\ IsArray(SmhClues.across)
    /\ Len(SmhClues.across[2]) = 1
    /\ SmhClues.across[2][1].position = 2
    /\ Len(ipuz.clues.across) = 1
    /\ ipuz.clues.across[1][1] = <<"2">>
    /\ \A p \in AcrossStarts : NumberOf(p) # 2

Ended == pc \in {"hc:returned", "hc:replied"}

\* A fetch, a conversion or a bucket write has failed.
SomeStepFailed ==
    \/ NytThrows
    \/ SmhThrows
    \/ \E i \in 1..Len(puts) : puts[i] = "failed"
    \/ nytPut = "failed"

\* C24: handleConvert never ends by throwing; when a fetch, a conversion
\* or a bucket write failed it returns the response with status 500 and
\* success false, and returns that response in no other case; the route
\* /cron/convert then answers 200 'Successfully processed scheduled task',
\* never its 500.
C24_FailuresBecomeResponses ==
    /\ response.kind # "threw"
    /\ Ended =>
         /\ response \in {SuccessResponse, ErrorResponse}
         /\ SomeStepFailed <=> response = ErrorResponse
    /\ (pc = "hc:replied" /\ request = "/cron/convert") =>
         reply = [kind |-> "returned", status |-> 200,
                  body |-> "Successfully processed scheduled task"]
    /\ (pc = "hc:replied" /\ request # "/cron/convert") =>
         reply.kind = "returned" /\ reply.status = response.status

\* The route /cron/convert has answered 200 although a bucket write
\* failed and handleConvert returned the 500 response.
C24_Witness ==
    /\ pc = "hc:replied"
    /\ request = "/cron/convert"
    /\ \E i \in 1..Len(puts) : puts[i] = "failed"
    /\ response = ErrorResponse
    /\ reply.status = 200

\* ----------------------------------------------------------------- C25
NytObjectWritten == \E k \in 1..Len(bucket) : bucket[k].source = "nyt-mini"

\* C25: the write of the NYT document is started only when the NYT fetch
\* and conversion, the SMH fetch and every SMH conversion succeeded and
\* every write of an SMH document has completed; so the NYT object is the
\* last object written; the success response is returned only when the
\* NYT write has completed; after a failure of an earlier step no NYT
\* object is written, while every SMH object whose write completed is in
\* the bucket.
C25_NytWrittenLast ==
    /\ nytPut # "none" =>
         /\ ~NytThrows
         /\ ~SmhThrows
         /\ Len(puts) = Len(smhResponse.puzzles)
         /\ \A i \in 1..Len(puts) : puts[i] = "stored"
    /\ NytObjectWritten <=> nytPut = "stored"
    /\ \A k \in 1..Len(bucket) :
         bucket[k].source = "nyt-mini" => k = Len(puts) + 1 /\ k = Len(bucket)
    /\ response = SuccessResponse => nytPut = "stored"
    /\ (NytThrows \/ SmhThrows \/ \E i \in 1..Len(puts) : puts[i] = "failed") =>
         nytPut = "none" /\ ~NytObjectWritten
    /\ \A i \in 1..Len(puts) :
         puts[i] = "stored" =>
            \E k \in 1..Len(bucket) :
               bucket[k] = [key |-> smhPuzzles[i].filename, source |-> "smh"]

\* handleConvert returned the 500 response after the second of two SMH
\* writes failed: the first SMH object is stored, no NYT object is.
C25_Witness ==
    /\ Ended
    /\ response = ErrorResponse
    /\ puts = <<"stored", "failed">>
    /\ Len(bucket) = 1
    /\ bucket[1].source = "smh"
    /\ nytPut = "none"

====
